---- MODULE Spec2Model ----
(***************************************************************************)
(* HeronGraphBuilder (graph/heron/heron_graph_builder.py): building the    *)
(* property graph of a Heron topology snapshot from the tracker's logical  *)
(* and physical plans.                                                     *)
(*                                                                         *)
(* State: the graph database (vertices V, edges E), the plans the tracker  *)
(* serves, and one record per call of build_topology_graph holding its     *)
(* position in the code and its local variables.  One action per remote    *)
(* operation (a tracker request, or a Gremlin traversal ended by .next()   *)
(* or .toList()); the Python between two remote operations belongs to the  *)
(* action of the operation that follows it.                                *)
(*                                                                         *)
(* Strings that the code takes apart (stream manager ids, instance names)  *)
(* are sequences of one-character strings.                                 *)
(***************************************************************************)
EXTENDS Integers, Sequences, FiniteSets, TLC

\* ------------------------------------------------------------------ bounds
MaxBrokers == 2      \* stream managers in a physical plan
MaxInst == 2         \* instances of one component
MaxBuilds == 2       \* calls of build_topology_graph in one behaviour

\* ----------------------------------------------------------------- strings
Digits == <<"0", "1", "2", "3", "4", "5", "6", "7", "8", "9">>

IsDigit(c) == \E d \in 1..Len(Digits) : Digits[d] = c

DigitVal(c) == (CHOOSE d \in 1..Len(Digits) : Digits[d] = c) - 1

\* str.split(sep) for a one-character separator: the segments between the
\* separators, empty segments included.
RECURSIVE Split(_, _)
Split(s, sep) ==
    IF \A p \in 1..Len(s) : s[p] # sep
    THEN << s >>
    ELSE LET p == CHOOSE q \in 1..Len(s) :
                      s[q] = sep /\ \A r \in 1..(q - 1) : s[r] # sep
         IN  << SubSeq(s, 1, p - 1) >> \o Split(SubSeq(s, p + 1, Len(s)), sep)

RECURSIVE DigitsValue(_)
DigitsValue(s) ==
    IF Len(s) = 0 THEN 0
    ELSE 10 * DigitsValue(SubSeq(s, 1, Len(s) - 1)) + DigitVal(s[Len(s)])

\* The ASCII characters int() skips around a number: space, tab, line feed,
\* vertical tab (character 11, written raw as the last element, there being
\* no escape for it), form feed and carriage return.
Whitespace == {" ", "\t", "\n", "\r", "\f", ""}

\* s without its leading and trailing white space.
Strip(s) ==
    LET keep == { p \in 1..Len(s) : s[p] \notin Whitespace }
    IN  IF keep = {} THEN << >>
        ELSE SubSeq(s, CHOOSE p \in keep : \A q \in keep : p <= q,
                       CHOOSE p \in keep : \A q \in keep : q <= p)

\* int(s) on a string of ASCII characters: white space around the number is
\* dropped; then an optional sign and one or more digits, with single "_"
\* allowed between two digits; anything else raises ValueError.
PyInt(s) ==
    LET t      == Strip(s)
        body   == IF Len(t) > 0 /\ t[1] \in {"+", "-"} THEN Tail(t) ELSE t
        number == /\ Len(body) > 0
                  /\ IsDigit(body[1])
                  /\ IsDigit(body[Len(body)])
                  /\ \A p \in 1..Len(body) : IsDigit(body[p]) \/ body[p] = "_"
                  /\ \A p \in 1..(Len(body) - 1) :
                        ~(body[p] = "_" /\ body[p + 1] = "_")
        digits == SelectSeq(body, IsDigit)
    IN  IF ~number
        THEN [ok |-> FALSE, err |-> "ValueError"]
        ELSE [ok |-> TRUE,
              val |-> IF t[1] = "-" THEN 0 - DigitsValue(digits)
                      ELSE DigitsValue(digits)]

\* The decimal digits of a natural number (str(n)).
RECURSIVE Dec(_)
Dec(n) == IF n < 10 THEN << Digits[n + 1] >>
          ELSE Dec(n \div 10) \o << Digits[(n % 10) + 1] >>

\* int(stream_manager["id"].split("-")[1]): the segment after the first "-"
\* read as a number.  No second segment is an IndexError, a segment that is
\* not a number a ValueError.
BadIndex(parts) == Len(parts) < 2

\* Containers counted from 0: the decoded number less one.
ContainerOfStmgrZeroBased(id) ==
    LET parts == Split(id, "-")
        n     == PyInt(parts[2])
    IN  IF BadIndex(parts) THEN [ok |-> FALSE, err |-> "IndexError"]
        ELSE IF n.ok THEN [ok |-> TRUE, val |-> n.val - 1] ELSE n

ContainerOfStmgr(id) ==
    LET parts == Split(id, "-")
    IN  IF BadIndex(parts) THEN [ok |-> FALSE, err |-> "IndexError"]
        ELSE PyInt(parts[2])

\* parse_instance_name(instance_name): "container_<c>_<component>_<task>".
\* The container is the second "_"-segment and the task id the last one; fewer
\* than four segments or a segment that is not a number is an error.
ParseInstanceName(name) ==
    LET parts == Split(name, "_")
    IN  IF Len(parts) < 4 THEN [ok |-> FALSE, err |-> "ParseError"]
        ELSE LET c == PyInt(parts[2])
                 t == PyInt(parts[Len(parts)])
             IN  IF ~c.ok \/ ~t.ok THEN [ok |-> FALSE, err |-> "ParseError"]
                 ELSE [ok |-> TRUE, container |-> c.val, task_id |-> t.val]

\* ------------------------------------------------------------------- plans
\* What the tracker serves (get_logical_plan, get_physical_plan).  The logical
\* plan lists the spout and bolt components in the order of its dicts; a bolt
\* declares its inputs.
Input(c, s, g) == [component_name |-> c, stream_name |-> s, grouping |-> g]

SpoutS1 == [name |-> "S1", spout_type |-> "kafka", spout_source |-> "topic"]

LpOne ==
    [spouts |-> << SpoutS1 >>,
     bolts  |-> << [name |-> "B1",
                    inputs |-> << Input("S1", "default", "shuffle") >>] >>]

LogicalPlans ==
    { LpOne,
      [spouts |-> << SpoutS1 >>,
       bolts  |-> << [name |-> "B1",
                      inputs |-> << Input("S1", "default", "shuffle"),
                                    Input("S1", "side", "fields") >>] >>],
      [spouts |-> << SpoutS1 >>,
       bolts  |-> << [name |-> "B1",
                      inputs |-> << Input("S1", "default", "shuffle") >>],
                     [name |-> "B2",
                      inputs |-> << Input("B1", "default", "fields") >>] >>] }

Components == {"S1", "B1", "B2"}

NameChars == [c \in Components |->
                 IF c = "S1" THEN <<"S", "1">>
                 ELSE IF c = "B1" THEN <<"B", "1">> ELSE <<"B", "2">>]

\* Stream manager ids: "stmgr-<c>" for each container, "t-1" (the suffix of
\* "stmgr-1"), "stmgr1" (no separator), "stmgr-x" (a suffix that is no
\* number), and three suffixes int() reads although they are no plain
\* numeral: " 2" (a space before it), a vertical tab before "1", and "1_0".
StmgrName(c) == <<"s", "t", "m", "g", "r", "-">> \o Dec(c)

StmgrIds == { StmgrName(c) : c \in 1..MaxBrokers }
               \cup { <<"t", "-", "1">>, <<"s", "t", "m", "g", "r", "1">>,
                      <<"s", "t", "m", "g", "r", "-", "x">>,
                      <<"s", "t", "m", "g", "r", "-", " ", "2">>,
                      <<"s", "t", "m", "g", "r", "-", "", "1">>,
                      <<"s", "t", "m", "g", "r", "-", "1", "_", "0">> }

\* The stmgrs dict has one entry per id: sequences without repetition.
StmgrLists ==
    { q \in UNION { [1..n -> StmgrIds] : n \in 0..MaxBrokers } :
        \A a, b \in 1..Len(q) : a # b => q[a] # q[b] }

Stmgr(id) == [id |-> id, host |-> "host", port |-> "port", shell_port |-> "shell"]

\* Instance names: "container_<container>_<component>_<task>"; a malformed
\* one has a container segment that is no number ("nonnumeric") or no
\* separators ("short").
Prefix == <<"c", "o", "n", "t", "a", "i", "n", "e", "r">>

InstanceName(c, comp, t, form) ==
    IF form = "short" THEN Prefix \o Dec(c) \o NameChars[comp] \o Dec(t)
    ELSE Prefix \o <<"_">> \o (IF form = "nonnumeric" THEN <<"x">> ELSE Dec(c))
         \o <<"_">> \o NameChars[comp] \o <<"_">> \o Dec(t)

\* A deployment: cnt[comp] instances of each component, task ids counted
\* through S1, B1, B2, packed round-robin into nc containers; bad names the
\* task whose instance name is malformed (task 0: none).
Total(cnt) == cnt["S1"] + cnt["B1"] + cnt["B2"]

FirstTask(cnt, comp) ==
    IF comp = "S1" THEN 1
    ELSE IF comp = "B1" THEN cnt["S1"] + 1 ELSE cnt["S1"] + cnt["B1"] + 1

CompOfTask(cnt, t) ==
    IF t <= cnt["S1"] THEN "S1"
    ELSE IF t <= cnt["S1"] + cnt["B1"] THEN "B1" ELSE "B2"

ContainerOfTask(t, nc) == ((t - 1) % nc) + 1

TaskName(cnt, t, nc, bad) ==
    InstanceName(ContainerOfTask(t, nc), CompOfTask(cnt, t), t,
                 IF bad.task = t THEN bad.form ELSE "ok")

InstanceList(cnt, comp, nc, bad) ==
    [p \in 1..cnt[comp] |-> TaskName(cnt, FirstTask(cnt, comp) + p - 1, nc, bad)]

PhysicalPlan(lp, stmgrs, cnt, nc, bad) ==
    [stmgrs |-> [p \in 1..Len(stmgrs) |-> Stmgr(stmgrs[p])],
     spouts |-> [comp \in { lp.spouts[p].name : p \in 1..Len(lp.spouts) } |->
                    InstanceList(cnt, comp, nc, bad)],
     bolts  |-> [comp \in { lp.bolts[p].name : p \in 1..Len(lp.bolts) } |->
                    InstanceList(cnt, comp, nc, bad)],
     instances |->
        [nm \in { TaskName(cnt, t, nc, bad) : t \in 1..Total(cnt) } |->
            LET t == CHOOSE u \in 1..Total(cnt) : TaskName(cnt, u, nc, bad) = nm
            IN  [stmgrId |-> StmgrName(ContainerOfTask(t, nc))]]]

\* B2 runs one instance where the logical plan declares it.
Counts(lp) ==
    { cnt \in [Components -> 0..MaxInst] :
        cnt["B2"] = IF \E p \in 1..Len(lp.bolts) : lp.bolts[p].name = "B2"
                    THEN 1 ELSE 0 }

BadNames(cnt) ==
    { bad \in { [task |-> 0, form |-> "ok"],
                [task |-> 1, form |-> "nonnumeric"],
                [task |-> Total(cnt), form |-> "short"] } :
        \/ bad.task = 0
        \/ bad.form = "nonnumeric" /\ Total(cnt) >= 1
        \/ bad.form = "short" /\ Total(cnt) >= 2 }

\* The plans over the given logical plans, stmgrs lists and container
\* counts, with at most `most` instances of S1 and of B1.
PlansOf(lps, sms, ncs, most, malformed) ==
    UNION { UNION { { [logical |-> lp,
                       physical |-> PhysicalPlan(lp, sm, cnt, nc, bad)] :
                        sm \in sms, nc \in ncs,
                        bad \in IF malformed THEN BadNames(cnt)
                                ELSE { [task |-> 0, form |-> "ok"] } } :
                    cnt \in { c \in Counts(lp) : c["S1"] <= most /\ c["B1"] <= most } } :
            lp \in lps }

\* One stream manager "stmgr-<c>" per container.
StmgrsOf(nc) == [c \in 1..nc |-> StmgrName(c)]

\* Every plan of the model: any stmgrs list under a deployment of at most one
\* instance per component, and any deployment, well-formed names or not, under
\* the stream managers of its containers.
Plans ==
    PlansOf({ LpOne }, StmgrLists, 1..MaxBrokers, 1, FALSE)
      \cup UNION { PlansOf(LogicalPlans, { StmgrsOf(nc) }, { nc }, MaxInst, TRUE) :
                     nc \in 1..MaxBrokers }

\* ------------------------------------------------------------------- state
VARIABLES
    V,          \* the vertices of the graph database
    E,          \* its edges
    tracker,    \* the plans the tracker serves
    limit,      \* how many calls of build_topology_graph this behaviour makes
    builds      \* per call: its position and its local variables

vars == << V, E, tracker, limit, builds >>

Builds == 1..MaxBuilds

\* The (topology_id, topology_ref) pairs the callers ask for.  The code treats
\* both as opaque values, so the first call is taken to ask for ("T1", "A").
Tags == { <<"T1", "A">>, <<"T1", "B">>, <<"T2", "A">> }

TagsFor(b) == IF b = 1 THEN { <<"T1", "A">> } ELSE Tags

None == << >>

NoPlan == [none |-> TRUE]

IdleBuild ==
    [pc |-> "idle", topology_id |-> "", topology_ref |-> "",
     logical_plan |-> NoPlan, physical_plan |-> NoPlan,
     i |-> 0, j |-> 0, k |-> 0,
     vertex |-> None,                  \* strmg, spout or bolt: the vertex just added
     cont |-> None,                    \* cont: the container vertex just added
     found |-> {},                     \* what the last container lookup matched
     destination_instances |-> << >>,
     source_instances |-> << >>,
     nv |-> 0, ne |-> 0,               \* vertices and edges this call has added
     after |-> {},                     \* the calls that had returned when it began
     err |-> ""]

\* Positions whose next operation is one on the graph database.
StorePcs == {"stmgr_vertex", "container_vertex", "stmgr_edge", "spout_vertex",
             "spout_edge", "bolt_vertex", "bolt_edge", "dest_query",
             "source_query", "logical_edge"}

\* --------------------------------------------------------- graph database
\* addV(label).property(...)... : the vertex records by label.  h is the
\* handle the database gives the new vertex.
StmgrVertex(h, sm, tid, ref) ==
    [h |-> h, label |-> "stream_manager", id |-> sm.id, host |-> sm.host,
     port |-> sm.port, shell_port |-> sm.shell_port,
     topology_id |-> tid, topology_ref |-> ref]

\* The slip of tagging the container with the topology id twice.
ContainerVertexRefSlip(h, c, tid, ref) ==
    [h |-> h, label |-> "container", id |-> c,
     topology_id |-> tid, topology_ref |-> tid]

ContainerVertex(h, c, tid, ref) ==
    [h |-> h, label |-> "container", id |-> c,
     topology_id |-> tid, topology_ref |-> ref]

\* The slip of storing the task id as the container and the container as the
\* task id.
SpoutVertexSwapped(h, inst, name, smid, data, tid, ref) ==
    [h |-> h, label |-> "spout", container |-> inst.task_id,
     task_id |-> inst.container, component |-> name, stream_manager |-> smid,
     spout_type |-> data.spout_type, spout_source |-> data.spout_source,
     topology_id |-> tid, topology_ref |-> ref]

SpoutVertex(h, inst, name, smid, data, tid, ref) ==
    [h |-> h, label |-> "spout", container |-> inst.container,
     task_id |-> inst.task_id, component |-> name, stream_manager |-> smid,
     spout_type |-> data.spout_type, spout_source |-> data.spout_source,
     topology_id |-> tid, topology_ref |-> ref]

BoltVertex(h, inst, name, smid, tid, ref) ==
    [h |-> h, label |-> "bolt", container |-> inst.container,
     task_id |-> inst.task_id, component |-> name, stream_manager |-> smid,
     topology_id |-> tid, topology_ref |-> ref]

IsWithinEdge(id, from, to) ==
    [id |-> id, label |-> "is_within", outV |-> from, inV |-> to]

\* The slip of storing the grouping as the stream name and the stream name as
\* the grouping.
LogicalEdgeSwapped(id, from, to, input) ==
    [id |-> id, label |-> "logically_connected", outV |-> from, inV |-> to,
     stream_name |-> input.grouping, grouping |-> input.stream_name]

LogicalEdge(id, from, to, input) ==
    [id |-> id, label |-> "logically_connected", outV |-> from, inV |-> to,
     stream_name |-> input.stream_name, grouping |-> input.grouping]

\* has(key, value): the element has the property and it equals the value.
Has(v, key, value) == key \in DOMAIN v /\ v[key] = value

\* The container lookup without its has("id", c) step.
FindContainersAnyId(vs, tid, ref, c) ==
    { v \in vs : /\ v.label = "container"
                 /\ Has(v, "topology_id", tid)
                 /\ Has(v, "topology_ref", ref) }

\* V().hasLabel("container").has("topology_id", ..).has("topology_ref", ..)
\*    .has("id", c)
FindContainers(vs, tid, ref, c) ==
    { v \in vs : /\ v.label = "container"
                 /\ Has(v, "topology_id", tid)
                 /\ Has(v, "topology_ref", ref)
                 /\ Has(v, "id", c) }

\* The instance lookup without its has("topology_ref", ..) step.
FindComponentAnyRef(vs, tid, ref, name) ==
    { v \in vs : /\ Has(v, "topology_id", tid)
                 /\ Has(v, "component", name) }

\* V().has("topology_id", ..).has("topology_ref", ..).has("component", name)
FindComponent(vs, tid, ref, name) ==
    { v \in vs : /\ Has(v, "topology_id", tid)
                 /\ Has(v, "topology_ref", ref)
                 /\ Has(v, "component", name) }

\* toList(): the handles of the matched vertices.  The traversals have no
\* order() step, so the list comes in whatever order the database yields:
\* ToList gives every list the call may receive.
ToList(hs) ==
    { q \in [1..Cardinality(hs) -> hs] :
        \A a, b \in 1..Cardinality(hs) : a # b => q[a] # q[b] }

VertexOf(vs, h) == CHOOSE v \in vs : v.h = h

\* ------------------------------------------------- positions in the loops
\* Each operator gives the record of a call at the next remote operation from
\* a loop position on, stepping over exhausted and empty loops.

Finished(bd) ==
    [bd EXCEPT !.pc = "done", !.i = 0, !.j = 0, !.k = 0,
               !.destination_instances = << >>, !.source_instances = << >>]

\* _create_logical_connections, for bolt_name, bolt_data in ...items()
DestAt(bd, i) ==
    IF i > Len(bd.logical_plan.bolts) THEN Finished(bd)
    ELSE [bd EXCEPT !.pc = "dest_query", !.i = i, !.j = 0, !.k = 0,
                    !.destination_instances = << >>,
                    !.source_instances = << >>]

\* for incoming_stream in bolt_data["inputs"]
InputAt(bd, i, j) ==
    IF j > Len(bd.logical_plan.bolts[i].inputs) THEN DestAt(bd, i + 1)
    ELSE [bd EXCEPT !.pc = "source_query", !.i = i, !.j = j, !.k = 0,
                    !.source_instances = << >>]

\* for destination in destination_instances: for source in source_instances
PairAt(bd, i, j, k) ==
    IF k > Len(bd.destination_instances) * Len(bd.source_instances)
    THEN InputAt(bd, i, j + 1)
    ELSE [bd EXCEPT !.pc = "logical_edge", !.i = i, !.j = j, !.k = k]

\* _create_bolts: for bolt_name in logical_plan["bolts"], for instance_name
\* in physical_bolts[bolt_name]
RECURSIVE BoltAt(_, _, _)
BoltAt(bd, i, j) ==
    IF i > Len(bd.logical_plan.bolts) THEN DestAt(bd, 1)
    ELSE IF j > Len(bd.physical_plan.bolts[bd.logical_plan.bolts[i].name])
    THEN BoltAt(bd, i + 1, 1)
    ELSE [bd EXCEPT !.pc = "bolt_vertex", !.i = i, !.j = j]

\* _create_spouts: for spout_name, spout_data in logical_plan["spouts"], for
\* instance_name in physical_spouts[spout_name]
RECURSIVE SpoutAt(_, _, _)
SpoutAt(bd, i, j) ==
    IF i > Len(bd.logical_plan.spouts) THEN BoltAt(bd, 1, 1)
    ELSE IF j > Len(bd.physical_plan.spouts[bd.logical_plan.spouts[i].name])
    THEN SpoutAt(bd, i + 1, 1)
    ELSE [bd EXCEPT !.pc = "spout_vertex", !.i = i, !.j = j]

\* A return inside the loop body: _create_stream_managers handles the first
\* stmgrs entry only.
StmgrAtFirstOnly(bd, i) ==
    IF i > Len(bd.physical_plan.stmgrs) \/ i > 1 THEN SpoutAt(bd, 1, 1)
    ELSE [bd EXCEPT !.pc = "stmgr_vertex", !.i = i, !.j = 0]

\* _create_stream_managers: for stream_manager in physical_plan["stmgrs"]
StmgrAt(bd, i) ==
    IF i > Len(bd.physical_plan.stmgrs) THEN SpoutAt(bd, 1, 1)
    ELSE [bd EXCEPT !.pc = "stmgr_vertex", !.i = i, !.j = 0]

\* The exception is caught and logged, and the call carries on.
FailAndCarryOn(bd, err) == [bd EXCEPT !.err = err]

\* An exception leaves build_topology_graph: nothing catches it.
Fail(bd, err) == [bd EXCEPT !.pc = "failed", !.err = err]

\* addV as an upsert: a vertex with the same properties gets the same handle.
NewVertexUpsert(b) == << 1, builds[b].nv + 1 >>

\* The next handle of a call: the call and the count of what it has added.
NewVertex(b) == << b, builds[b].nv + 1 >>
NewEdge(b) == << b, builds[b].ne + 1 >>

\* ---------------------------------------------------------------- actions
\* Calls are numbered in the order they start.
\* build_topology_graph(topology_id, topology_ref, cluster, environ) is called.
Start(b) ==
    /\ builds[b].pc = "idle"
    /\ b <= limit
    /\ b > 1 => builds[b - 1].pc # "idle"
    /\ \E tag \in TagsFor(b) :
          builds' = [builds EXCEPT ![b] =
                        [@ EXCEPT !.pc = "fetch_logical",
                                  !.topology_id = tag[1],
                                  !.topology_ref = tag[2],
                                  !.after = { c \in Builds :
                                                builds[c].pc = "done" }]]
    /\ UNCHANGED << V, E, tracker, limit >>

GetLogicalPlan(b) ==
    /\ builds[b].pc = "fetch_logical"
    /\ builds' = [builds EXCEPT ![b] = [@ EXCEPT !.pc = "fetch_physical",
                                                 !.logical_plan = tracker.logical]]
    /\ UNCHANGED << V, E, tracker, limit >>

GetPhysicalPlan(b) ==
    /\ builds[b].pc = "fetch_physical"
    /\ builds' = [builds EXCEPT ![b] =
                     StmgrAt([@ EXCEPT !.physical_plan = tracker.physical], 1)]
    /\ UNCHANGED << V, E, tracker, limit >>

\* The logical plan requested only when _create_spouts needs it, after the
\* stream managers are in the database.
TrackerFailsLate(b) ==
    /\ builds[b].pc \in {"fetch_logical", "fetch_physical", "spout_vertex"}
    /\ builds' = [builds EXCEPT ![b] = [@ EXCEPT !.pc = "failed",
                                                 !.err = "PlanFetchError"]]
    /\ UNCHANGED << V, E, tracker, limit >>

\* The tracker is unreachable or does not know the topology.
TrackerFails(b) ==
    /\ builds[b].pc \in {"fetch_logical", "fetch_physical"}
    /\ builds' = [builds EXCEPT ![b] = Fail(@, "PlanFetchError")]
    /\ UNCHANGED << V, E, tracker, limit >>

\* A traversal fails in the database or on the way to it.
GraphStoreFails(b) ==
    /\ builds[b].pc \in StorePcs
    /\ builds' = [builds EXCEPT ![b] = Fail(@, "GraphStoreError")]
    /\ UNCHANGED << V, E, tracker, limit >>

\* strmg = addV("stream_manager")...next()
AddStreamManager(b) ==
    LET bd == builds[b]
        h  == NewVertex(b)
    IN  /\ bd.pc = "stmgr_vertex"
        /\ V' = V \cup { StmgrVertex(h, bd.physical_plan.stmgrs[bd.i],
                                     bd.topology_id, bd.topology_ref) }
        /\ builds' = [builds EXCEPT ![b] =
                         [@ EXCEPT !.pc = "container_vertex", !.vertex = h,
                                   !.cont = None, !.found = {},
                                   !.nv = @ + 1]]
        /\ UNCHANGED << E, tracker, limit >>

\* container = int(stream_manager["id"].split("-")[1]);
\* cont = addV("container")...next()
AddContainer(b) ==
    LET bd == builds[b]
        h  == NewVertex(b)
        c  == ContainerOfStmgr(bd.physical_plan.stmgrs[bd.i].id)
    IN  /\ bd.pc = "container_vertex"
        /\ IF c.ok
           THEN /\ V' = V \cup { ContainerVertex(h, c.val, bd.topology_id,
                                                 bd.topology_ref) }
                /\ builds' = [builds EXCEPT ![b] =
                                 [@ EXCEPT !.pc = "stmgr_edge", !.cont = h,
                                           !.nv = @ + 1]]
           ELSE /\ V' = V
                /\ builds' = [builds EXCEPT ![b] = Fail(@, c.err)]
        /\ UNCHANGED << E, tracker, limit >>

\* The stream manager connected the way the instances are: to a container the
\* database finds by snapshot and id instead of the vertex just added.
ConnectStreamManagerByLookup(b) ==
    LET bd == builds[b]
    IN  /\ bd.pc = "stmgr_edge"
        /\ \E c \in FindContainers(V, bd.topology_id, bd.topology_ref,
                                   VertexOf(V, bd.cont).id) :
              E' = E \cup { IsWithinEdge(NewEdge(b), bd.vertex, c.h) }
        /\ builds' = [builds EXCEPT ![b] =
                         StmgrAt([@ EXCEPT !.ne = @ + 1, !.vertex = None,
                                           !.cont = None], bd.i + 1)]
        /\ UNCHANGED << V, tracker, limit >>

\* V(strmg).addE("is_within").to(cont).next()
ConnectStreamManager(b) ==
    LET bd == builds[b]
    IN  /\ bd.pc = "stmgr_edge"
        /\ E' = E \cup { IsWithinEdge(NewEdge(b), bd.vertex, bd.cont) }
        /\ builds' = [builds EXCEPT ![b] =
                         StmgrAt([@ EXCEPT !.ne = @ + 1, !.vertex = None,
                                           !.cont = None], bd.i + 1)]
        /\ UNCHANGED << V, tracker, limit >>

\* The instance name at the position of a call in _create_spouts/_create_bolts.
SpoutName(bd) == bd.physical_plan.spouts[bd.logical_plan.spouts[bd.i].name][bd.j]
BoltName(bd) == bd.physical_plan.bolts[bd.logical_plan.bolts[bd.i].name][bd.j]

\* instance = parse_instance_name(instance_name);
\* stream_manager_id = physical_plan["instances"][instance_name]["stmgrId"];
\* spout = addV("spout")...next()
AddSpout(b) ==
    LET bd   == builds[b]
        h    == NewVertex(b)
        data == bd.logical_plan.spouts[bd.i]
        name == SpoutName(bd)
        inst == ParseInstanceName(name)
    IN  /\ bd.pc = "spout_vertex"
        /\ IF ~inst.ok
           THEN /\ V' = V
                /\ builds' = [builds EXCEPT ![b] = Fail(@, inst.err)]
           ELSE IF name \notin DOMAIN bd.physical_plan.instances
           THEN /\ V' = V
                /\ builds' = [builds EXCEPT ![b] = Fail(@, "KeyError")]
           ELSE /\ V' = V \cup
                      { SpoutVertex(h, inst, data.name,
                                    bd.physical_plan.instances[name].stmgrId,
                                    data, bd.topology_id, bd.topology_ref) }
                /\ builds' = [builds EXCEPT ![b] =
                                 [@ EXCEPT !.pc = "spout_edge", !.vertex = h,
                                           !.found = {}, !.nv = @ + 1]]
        /\ UNCHANGED << E, tracker, limit >>

\* V(instance).addE("is_within").to(V().hasLabel("container")...).next(): the
\* edge goes to the first container the inner traversal yields, in the order
\* of the database; with none the traversal fails.
ConnectInstance(b, name, next) ==
    LET bd    == builds[b]
        inst  == ParseInstanceName(name)
        conts == FindContainers(V, bd.topology_id, bd.topology_ref,
                                inst.container)
    IN  IF conts = {}
        THEN /\ E' = E
             /\ builds' = [builds EXCEPT ![b] = Fail(@, "LookupError")]
        ELSE \E c \in conts :
                /\ E' = E \cup { IsWithinEdge(NewEdge(b), bd.vertex, c.h) }
                /\ builds' = [builds EXCEPT ![b] =
                                 [next EXCEPT !.ne = @ + 1, !.vertex = None,
                                              !.found = { v.h : v \in conts }]]

ConnectSpout(b) ==
    /\ builds[b].pc = "spout_edge"
    /\ ConnectInstance(b, SpoutName(builds[b]),
                       SpoutAt(builds[b], builds[b].i, builds[b].j + 1))
    /\ UNCHANGED << V, tracker, limit >>

\* bolt = addV("bolt")...next()
AddBolt(b) ==
    LET bd   == builds[b]
        h    == NewVertex(b)
        name == BoltName(bd)
        inst == ParseInstanceName(name)
    IN  /\ bd.pc = "bolt_vertex"
        /\ IF ~inst.ok
           THEN /\ V' = V
                /\ builds' = [builds EXCEPT ![b] = Fail(@, inst.err)]
           ELSE IF name \notin DOMAIN bd.physical_plan.instances
           THEN /\ V' = V
                /\ builds' = [builds EXCEPT ![b] = Fail(@, "KeyError")]
           ELSE /\ V' = V \cup
                      { BoltVertex(h, inst, bd.logical_plan.bolts[bd.i].name,
                                   bd.physical_plan.instances[name].stmgrId,
                                   bd.topology_id, bd.topology_ref) }
                /\ builds' = [builds EXCEPT ![b] =
                                 [@ EXCEPT !.pc = "bolt_edge", !.vertex = h,
                                           !.found = {}, !.nv = @ + 1]]
        /\ UNCHANGED << E, tracker, limit >>

ConnectBolt(b) ==
    /\ builds[b].pc = "bolt_edge"
    /\ ConnectInstance(b, BoltName(builds[b]),
                       BoltAt(builds[b], builds[b].i, builds[b].j + 1))
    /\ UNCHANGED << V, tracker, limit >>

\* Each call working on a view of its own: the query sees only the vertices
\* the call itself has added.
QueryDestinationsOwn(b) ==
    LET bd == builds[b]
        vs == { v \in FindComponent(V, bd.topology_id, bd.topology_ref,
                                    bd.logical_plan.bolts[bd.i].name) :
                  v.h[1] = b }
    IN  /\ bd.pc = "dest_query"
        /\ \E list \in ToList({ v.h : v \in vs }) :
              builds' = [builds EXCEPT ![b] =
                            InputAt([@ EXCEPT !.destination_instances = list,
                                              !.found = {}],
                                    bd.i, 1)]
        /\ UNCHANGED << V, E, tracker, limit >>

\* destination_instances = V().has(...).has("component", bolt_name).toList()
QueryDestinations(b) ==
    LET bd == builds[b]
        vs == FindComponent(V, bd.topology_id, bd.topology_ref,
                            bd.logical_plan.bolts[bd.i].name)
    IN  /\ bd.pc = "dest_query"
        /\ \E list \in ToList({ v.h : v \in vs }) :
              builds' = [builds EXCEPT ![b] =
                            InputAt([@ EXCEPT !.destination_instances = list,
                                              !.found = {}],
                                    bd.i, 1)]
        /\ UNCHANGED << V, E, tracker, limit >>

\* The source query without its has("topology_ref", ..) step.
QuerySourcesAnyRef(b) ==
    LET bd == builds[b]
        vs == { v \in V :
                  /\ Has(v, "topology_id", bd.topology_id)
                  /\ Has(v, "component",
                         bd.logical_plan.bolts[bd.i].inputs[bd.j].component_name) }
    IN  /\ bd.pc = "source_query"
        /\ \E list \in ToList({ v.h : v \in vs }) :
              builds' = [builds EXCEPT ![b] =
                            PairAt([@ EXCEPT !.source_instances = list],
                                   bd.i, bd.j, 1)]
        /\ UNCHANGED << V, E, tracker, limit >>

\* source_instances = V().has(...)
\*     .has("component", incoming_stream["component_name"]).toList()
QuerySources(b) ==
    LET bd == builds[b]
        vs == FindComponent(V, bd.topology_id, bd.topology_ref,
                            bd.logical_plan.bolts[bd.i].inputs[bd.j].component_name)
    IN  /\ bd.pc = "source_query"
        /\ \E list \in ToList({ v.h : v \in vs }) :
              builds' = [builds EXCEPT ![b] =
                            PairAt([@ EXCEPT !.source_instances = list],
                                   bd.i, bd.j, 1)]
        /\ UNCHANGED << V, E, tracker, limit >>

\* The inner loop taking the first source every time.
PairSourceFirst(bd, k) == bd.source_instances[1]

\* The k-th pair of the nested loops: destinations outside, sources inside.
PairDestination(bd, k) ==
    bd.destination_instances[((k - 1) \div Len(bd.source_instances)) + 1]

PairSource(bd, k) ==
    bd.source_instances[((k - 1) % Len(bd.source_instances)) + 1]

\* The edge added with a coalesce: only when the source has no
\* logically_connected edge of that stream to the destination yet.
ConnectLogicallyCoalesce(b) ==
    LET bd    == builds[b]
        input == bd.logical_plan.bolts[bd.i].inputs[bd.j]
        there == \E e \in E : /\ e.label = "logically_connected"
                              /\ e.outV = PairSource(bd, bd.k)
                              /\ e.inV = PairDestination(bd, bd.k)
                              /\ e.stream_name = input.stream_name
    IN  /\ bd.pc = "logical_edge"
        /\ E' = IF there THEN E
                ELSE E \cup { LogicalEdge(NewEdge(b), PairSource(bd, bd.k),
                                          PairDestination(bd, bd.k), input) }
        /\ builds' = [builds EXCEPT ![b] =
                         PairAt([@ EXCEPT !.ne = @ + 1], bd.i, bd.j, bd.k + 1)]
        /\ UNCHANGED << V, tracker, limit >>

\* V(source).addE("logically_connected").property("stream_name", ...)
\*     .property("grouping", ...).to(destination).next()
ConnectLogically(b) ==
    LET bd == builds[b]
    IN  /\ bd.pc = "logical_edge"
        /\ E' = E \cup { LogicalEdge(NewEdge(b), PairSource(bd, bd.k),
                                     PairDestination(bd, bd.k),
                                     bd.logical_plan.bolts[bd.i].inputs[bd.j]) }
        /\ builds' = [builds EXCEPT ![b] =
                         PairAt([@ EXCEPT !.ne = @ + 1], bd.i, bd.j, bd.k + 1)]
        /\ UNCHANGED << V, tracker, limit >>

\* logical_pairs = V().has(...).hasLabel(P.within("bolt", "spout"))
\*     .as_("source").out("logically_connected").as_("destination")
\*     .select("source", "destination").toList(): one pair for each
\* logically_connected edge that leaves a spout or bolt of the snapshot.
LogicalPairs(vs, es, tid, ref) ==
    { [path |-> e.id, source |-> e.outV, destination |-> e.inV] :
        e \in { x \in es :
                  /\ x.label = "logically_connected"
                  /\ \E v \in vs : /\ v.h = x.outV
                                   /\ v.label \in {"bolt", "spout"}
                                   /\ Has(v, "topology_id", tid)
                                   /\ Has(v, "topology_ref", ref) } }

\* The two TODOs carried out: a physically_connected edge along every pair.
CreatePhysicalConnectionsWired(tag) ==
    LET logical_pairs == LogicalPairs(V, E, tag[1], tag[2])
    IN  /\ E' = E \cup { [id |-> << 0, pair.path >>,
                          label |-> "physically_connected",
                          outV |-> pair.source, inV |-> pair.destination] :
                         pair \in logical_pairs }
        /\ UNCHANGED << V, tracker, limit, builds >>

\* _create_physical_connections(topology_id, topology_ref, ...): the query
\* for the logically connected pairs and a loop that reads each pair and does
\* nothing with it (two TODOs).  build_topology_graph does not call it; it
\* runs when something else does.
CreatePhysicalConnections(tag) ==
    LET logical_pairs == LogicalPairs(V, E, tag[1], tag[2])
    IN  /\ \A pair \in logical_pairs :
              \E source, destination \in V :
                  source.h = pair.source /\ destination.h = pair.destination
        /\ UNCHANGED << V, E, tracker, limit, builds >>

\* --------------------------------------------------------- specifications
Next ==
    \/ \E b \in Builds :
        \/ Start(b)
        \/ GetLogicalPlan(b)
        \/ GetPhysicalPlan(b)
        \/ TrackerFails(b)
        \/ GraphStoreFails(b)
        \/ AddStreamManager(b)
        \/ AddContainer(b)
        \/ ConnectStreamManager(b)
        \/ AddSpout(b)
        \/ ConnectSpout(b)
        \/ AddBolt(b)
        \/ ConnectBolt(b)
        \/ QueryDestinations(b)
        \/ QuerySources(b)
        \/ ConnectLogically(b)
    \/ \E tag \in Tags : CreatePhysicalConnections(tag)

EmptyStore ==
    /\ V = {}
    /\ E = {}
    /\ builds = [b \in Builds |-> IdleBuild]

\* One call on an empty database, any plans.
Init ==
    /\ EmptyStore
    /\ limit = 1
    /\ tracker \in Plans

Spec == Init /\ [][Next]_vars

\* The deployment of the end-to-end scenario: two instances of S1 and one of
\* B1 under stream manager "stmgr-1" in container 1.
ScenarioCounts == [c \in Components |-> IF c = "S1" THEN 2 ELSE IF c = "B1" THEN 1 ELSE 0]

Scenario ==
    [logical  |-> LpOne,
     physical |-> PhysicalPlan(LpOne, StmgrsOf(1), ScenarioCounts, 1,
                               [task |-> 0, form |-> "ok"])]

\* Small deployments: one stream manager per container, at most one instance
\* of S1 and of B1, well-formed names.
RunPlans ==
    UNION { PlansOf({ LpOne }, { StmgrsOf(nc) }, { nc }, 1, FALSE) :
              nc \in 1..MaxBrokers }

\* Several calls, one after the other or overlapping, on small deployments.
InitRuns ==
    /\ EmptyStore
    /\ limit = MaxBuilds
    /\ tracker \in RunPlans

SpecRuns == InitRuns /\ [][Next]_vars

\* A single caller: a call of build_topology_graph begins only when no other
\* call is in flight.
OneAtATime ==
    \A b \in Builds :
        (builds[b].pc = "idle" /\ builds'[b].pc # "idle") =>
            \A c \in Builds : builds[c].pc \in {"idle", "done", "failed"}

NextAgain == Next /\ OneAtATime

\* Several calls, one after the other, on the small deployments and the
\* scenario.
InitAgain ==
    /\ EmptyStore
    /\ limit = MaxBuilds
    /\ tracker \in RunPlans \cup { Scenario }

SpecAgain == InitAgain /\ [][NextAgain]_vars

\* ------------------------------------------------------------ vocabulary
TagOf(bd) == << bd.topology_id, bd.topology_ref >>

Tagged(v, tag) == v.topology_id = tag[1] /\ v.topology_ref = tag[2]

\* The vertices of a snapshot, and those of one label.
Snapshot(tag) == { v \in V : Tagged(v, tag) }

Labelled(tag, label) == { v \in Snapshot(tag) : v.label = label }

WithLabel(label) == { v \in V : v.label = label }

\* The calls that have asked for a snapshot.
CallsOf(tag) == { b \in Builds : builds[b].pc # "idle" /\ TagOf(builds[b]) = tag }

\* Call b has returned and no other call has touched its snapshot: the
\* database held no vertex of the snapshot when b started.
OnlyCompleteCall(b) ==
    /\ builds[b].pc = "done"
    /\ CallsOf(TagOf(builds[b])) = { b }

\* What call b has added to the database.
Contribution(b) == << { v \in V : v.h[1] = b }, { e \in E : e.id[1] = b } >>

Handles(vs) == { v.h : v \in vs }

Range(q) == { q[p] : p \in 1..Len(q) }

IsWithin == { e \in E : e.label = "is_within" }

LogicallyConnected == { e \in E : e.label = "logically_connected" }

\* The vertices of a snapshot that stand for one decoded instance name.
InstanceVertices(tag, label, comp, inst) ==
    { v \in Labelled(tag, label) :
        /\ v.component = comp
        /\ v.container = inst.container
        /\ v.task_id = inst.task_id }

\* The instance name has one vertex, with one is_within edge, to a container
\* of the snapshot with the decoded container as id.
OneVertexInItsContainer(tag, label, comp, name) ==
    LET inst == ParseInstanceName(name)
        vs   == InstanceVertices(tag, label, comp, inst)
    IN  /\ inst.ok
        /\ Cardinality(vs) = 1
        /\ \A v \in vs :
              LET out == { e \in IsWithin : e.outV = v.h }
              IN  /\ Cardinality(out) = 1
                  /\ \A e \in out :
                        LET to == VertexOf(V, e.inV)
                        IN  /\ to.label = "container"
                            /\ Tagged(to, tag)
                            /\ to.id = inst.container

\* The number of instances the physical plan lists for a component.
InstancesOf(pp, comp) ==
    IF comp \in DOMAIN pp.spouts THEN Len(pp.spouts[comp])
    ELSE IF comp \in DOMAIN pp.bolts THEN Len(pp.bolts[comp]) ELSE 0

\* The logically_connected edges of one declared input of a bolt that touch a
\* snapshot.
InputEdges(tag, bolt, input) ==
    { e \in LogicallyConnected :
        /\ e.stream_name = input.stream_name
        /\ e.grouping = input.grouping
        /\ Has(VertexOf(V, e.outV), "component", input.component_name)
        /\ Has(VertexOf(V, e.inV), "component", bolt)
        /\ Tagged(VertexOf(V, e.outV), tag) \/ Tagged(VertexOf(V, e.inV), tag) }

\* The errors of int(stream_manager["id"].split("-")[1]); the instance-name
\* parser has its own.
StmgrParseErrors == {"IndexError", "ValueError"}

\* The scenario has been built by call b, alone on the database.
ScenarioBuilt(b) ==
    /\ builds[b].pc = "done"
    /\ builds[b].logical_plan = Scenario.logical
    /\ builds[b].physical_plan = Scenario.physical
    /\ \A c \in Builds \ { b } : builds[c].pc = "idle"

\* The containers of the call's snapshot with the decoded container of an
\* instance name as id.
MatchingContainers(bd, name) ==
    { v \in V : /\ v.label = "container"
                /\ Tagged(v, TagOf(bd))
                /\ v.id = ParseInstanceName(name).container }

\* The call is about to connect an instance whose container is not there.
AtMissingContainer(bd) ==
    \/ bd.pc = "spout_edge" /\ MatchingContainers(bd, SpoutName(bd)) = {}
    \/ bd.pc = "bolt_edge" /\ MatchingContainers(bd, BoltName(bd)) = {}

\* The handles the queries of a call have returned to it.
Returned(bd) ==
    bd.found \cup Range(bd.destination_instances) \cup Range(bd.source_instances)

\* Calls a and b build the same topology under different topology_ref values.
OtherSnapshot(a, b) ==
    /\ a # b
    /\ builds[a].pc # "idle"
    /\ builds[b].pc # "idle"
    /\ builds[a].topology_id = builds[b].topology_id
    /\ builds[a].topology_ref # builds[b].topology_ref

\* Exactly two calls have asked for the snapshot and both have returned.
TwoCompleteCalls(tag) ==
    /\ Cardinality(CallsOf(tag)) = 2
    /\ \A b \in CallsOf(tag) : builds[b].pc = "done"

\* A call that has started and neither returned nor raised.
InFlight(bd) == bd.pc \notin {"idle", "done", "failed"}

\* Two calls at work on the same snapshot at the same time.
Concurrent(a, b) ==
    /\ a # b
    /\ InFlight(builds[a])
    /\ InFlight(builds[b])
    /\ TagOf(builds[a]) = TagOf(builds[b])

\* The container ids, and the (label, component, container, task_id) of the
\* instances, that more than one vertex of the snapshot carries.
DuplicatedContainers(tag) ==
    { v \in Labelled(tag, "container") :
        \E w \in Labelled(tag, "container") : w.h # v.h /\ w.id = v.id }

DuplicatedInstances(tag) ==
    { v \in Labelled(tag, "spout") \cup Labelled(tag, "bolt") :
        \E w \in Snapshot(tag) :
            /\ w.h # v.h
            /\ w.label = v.label
            /\ w.component = v.component
            /\ w.container = v.container
            /\ w.task_id = v.task_id }

\* The vertices of one label a call has added, and its edges of one label.
Added(b, label) == { v \in Contribution(b)[1] : v.label = label }

Wired(b, label) == { e \in Contribution(b)[2] : e.label = label }

\* The (component, position) pairs of the instances the plans of a call list
\* under the spouts, and under the bolts, of the logical plan.
SpoutSlots(bd) ==
    UNION { { << i, j >> :
                j \in 1..Len(bd.physical_plan.spouts[bd.logical_plan.spouts[i].name]) } :
            i \in 1..Len(bd.logical_plan.spouts) }

BoltSlots(bd) ==
    UNION { { << i, j >> :
                j \in 1..Len(bd.physical_plan.bolts[bd.logical_plan.bolts[i].name]) } :
            i \in 1..Len(bd.logical_plan.bolts) }

\* Every operation of a step of call b has been made: _create_stream_managers
\* (vertex, container and edge per stmgrs entry), _create_spouts and
\* _create_bolts (vertex and edge per instance).
BrokersMade(b) ==
    /\ builds[b].physical_plan # NoPlan
    /\ Cardinality(Added(b, "stream_manager")) = Len(builds[b].physical_plan.stmgrs)
    /\ Cardinality(Added(b, "container")) = Len(builds[b].physical_plan.stmgrs)
    /\ \A v \in Added(b, "stream_manager") :
          \E e \in Wired(b, "is_within") : e.outV = v.h

SpoutVerticesMade(b) ==
    /\ builds[b].logical_plan # NoPlan
    /\ builds[b].physical_plan # NoPlan
    /\ Cardinality(Added(b, "spout")) = Cardinality(SpoutSlots(builds[b]))

SpoutsMade(b) ==
    /\ SpoutVerticesMade(b)
    /\ \A v \in Added(b, "spout") : \E e \in Wired(b, "is_within") : e.outV = v.h

BoltVerticesMade(b) ==
    /\ builds[b].logical_plan # NoPlan
    /\ builds[b].physical_plan # NoPlan
    /\ Cardinality(Added(b, "bolt")) = Cardinality(BoltSlots(builds[b]))

BoltsMade(b) ==
    /\ BoltVerticesMade(b)
    /\ \A v \in Added(b, "bolt") : \E e \in Wired(b, "is_within") : e.outV = v.h

\* Both plans are with the call before its first operation on the database.
PlansFirst(b) ==
    Contribution(b) # << {}, {} >> =>
        builds[b].logical_plan # NoPlan /\ builds[b].physical_plan # NoPlan

\* What follows the first "-" of a stream manager id, when the id has one.
HasSeparator(id) == \E p \in 1..Len(id) : id[p] = "-"

SuffixOf(id) ==
    LET first == CHOOSE p \in 1..Len(id) :
                     id[p] = "-" /\ \A q \in 1..(p - 1) : id[q] # "-"
    IN  [q \in 1..(Len(id) - first) |-> id[first + q]]

\* The id ends in a number after its first "-"; and that number, read digit
\* by digit from the left.
HasNumericSuffix(id) ==
    /\ HasSeparator(id)
    /\ Len(SuffixOf(id)) > 0
    /\ \A q \in 1..Len(SuffixOf(id)) : IsDigit(SuffixOf(id)[q])

RECURSIVE Numeral(_, _)
Numeral(digits, sofar) ==
    IF Len(digits) = 0 THEN sofar
    ELSE Numeral(Tail(digits), 10 * sofar + DigitVal(Head(digits)))

NumericSuffix(id) == Numeral(SuffixOf(id), 0)

\* The (stream manager id, container id) pairs of the database: a stream
\* manager and the container it is within, or the two vertices a call has
\* added and is about to connect.
StmgrContainerPairs ==
    { << VertexOf(V, e.outV).id, VertexOf(V, e.inV).id >> :
        e \in { x \in IsWithin : VertexOf(V, x.outV).label = "stream_manager" } }
      \cup { << VertexOf(V, builds[b].vertex).id, VertexOf(V, builds[b].cont).id >> :
               b \in { c \in Builds : builds[c].pc = "stmgr_edge" } }

\* Every call that has started has returned, and at least one has.
AllComplete ==
    /\ \E b \in Builds : builds[b].pc = "done"
    /\ \A b \in Builds : builds[b].pc \in {"idle", "done"}

\* The is_within edges from a stream manager that arrive at a vertex, and the
\* is_within edges that leave a vertex.
FromStmgrInto(v) ==
    { e \in IsWithin :
        e.inV = v.h /\ VertexOf(V, e.outV).label = "stream_manager" }

WithinFrom(v) == { e \in IsWithin : e.outV = v.h }

\* Call b is a second run of call a: the same snapshot and the same plans,
\* begun after a had returned, no other call on the snapshot, and returned.
SecondRun(a, b) ==
    /\ a # b
    /\ a \in builds[b].after
    /\ builds[b].pc = "done"
    /\ TagOf(builds[a]) = TagOf(builds[b])
    /\ CallsOf(TagOf(builds[a])) = { a, b }
    /\ builds[a].logical_plan = builds[b].logical_plan
    /\ builds[a].physical_plan = builds[b].physical_plan

\* ------------------------------------------------------------------ claims

\* C1: after one complete build on a database holding no vertex of the
\* snapshot, a physical plan with B stmgrs entries has left exactly B
\* stream_manager vertices and B container vertices tagged with the snapshot,
\* and exactly B is_within edges from a stream manager to a container, each
\* between two vertices of the snapshot.  (Edges carry no properties of their
\* own in the code; an edge belongs to the snapshot of its end points.)
C1_BrokersContainersEdges ==
    \A b \in Builds :
        OnlyCompleteCall(b) =>
            LET tag   == TagOf(builds[b])
                B     == Len(builds[b].physical_plan.stmgrs)
                sms   == Handles(Labelled(tag, "stream_manager"))
                cts   == Handles(Labelled(tag, "container"))
                edges == { e \in IsWithin :
                             /\ VertexOf(V, e.outV).label = "stream_manager"
                             /\ VertexOf(V, e.inV).label = "container"
                             /\ e.outV \in sms \/ e.inV \in cts }
            IN  /\ Cardinality(sms) = B
                /\ Cardinality(cts) = B
                /\ Cardinality(edges) = B
                /\ \A e \in edges : e.outV \in sms /\ e.inV \in cts

C1_Witness ==
    \E b \in Builds :
        /\ OnlyCompleteCall(b)
        /\ Len(builds[b].physical_plan.stmgrs) >= 2
        /\ Cardinality(Labelled(TagOf(builds[b]), "container")) >= 2

\* C2: after one complete build (the only call on its snapshot), every
\* instance name the physical plan lists under a spout or bolt component has
\* exactly one vertex of that label and component in the snapshot whose
\* container and task_id are the values decoded from the name, and that vertex
\* has exactly one outgoing is_within edge, to a container vertex of the same
\* snapshot whose id is the decoded container.
C2_OneVertexPerInstance ==
    \A b \in Builds :
        OnlyCompleteCall(b) =>
            LET tag == TagOf(builds[b])
                pp  == builds[b].physical_plan
            IN  /\ \A comp \in DOMAIN pp.spouts : \A p \in 1..Len(pp.spouts[comp]) :
                      OneVertexInItsContainer(tag, "spout", comp, pp.spouts[comp][p])
                /\ \A comp \in DOMAIN pp.bolts : \A p \in 1..Len(pp.bolts[comp]) :
                      OneVertexInItsContainer(tag, "bolt", comp, pp.bolts[comp][p])

C2_Witness ==
    \E b \in Builds :
        /\ OnlyCompleteCall(b)
        /\ Len(builds[b].physical_plan.spouts["S1"]) >= 2
        /\ Len(builds[b].physical_plan.bolts["B1"]) >= 1
        /\ Cardinality(Labelled(TagOf(builds[b]), "container")) >= 2
        /\ \E v \in Labelled(TagOf(builds[b]), "bolt") : v.container # v.task_id

\* C3: after one complete build on a database holding no vertex of the
\* snapshot, for every bolt component and every input it declares, with S
\* instances of the source component and D of the bolt in the physical plan
\* (either may be 0), exactly S * D logically_connected edges carry the input's
\* stream_name and grouping from an instance of the source to an instance of
\* the bolt: one for each pair.
C3_CrossProduct ==
    \A b \in Builds :
        OnlyCompleteCall(b) =>
            LET tag == TagOf(builds[b])
                lp  == builds[b].logical_plan
                pp  == builds[b].physical_plan
            IN  \A i \in 1..Len(lp.bolts) : \A j \in 1..Len(lp.bolts[i].inputs) :
                    LET bolt  == lp.bolts[i].name
                        input == lp.bolts[i].inputs[j]
                        S     == InstancesOf(pp, input.component_name)
                        D     == InstancesOf(pp, bolt)
                        srcs  == { v \in Snapshot(tag) :
                                     Has(v, "component", input.component_name) }
                        dsts  == { v \in Snapshot(tag) : Has(v, "component", bolt) }
                        edges == InputEdges(tag, bolt, input)
                    IN  /\ Cardinality(srcs) = S
                        /\ Cardinality(dsts) = D
                        /\ Cardinality(edges) = S * D
                        /\ \A s \in srcs, d \in dsts :
                              Cardinality({ e \in edges :
                                              e.outV = s.h /\ e.inV = d.h }) = 1

\* Two inputs of B1 from S1, two instances of each: 2 * (2 * 2) edges.
C3_Witness ==
    \E b \in Builds :
        /\ OnlyCompleteCall(b)
        /\ Len(builds[b].logical_plan.bolts[1].inputs) = 2
        /\ Len(builds[b].physical_plan.spouts["S1"]) = 2
        /\ Len(builds[b].physical_plan.bolts["B1"]) = 2
        /\ Cardinality(LogicallyConnected) = 8

\* C4: for two builds of the same topology_id under different topology_ref
\* values, one after the other or interleaved, no vertex one of them creates
\* lies in the snapshot of the other, and every vertex a query of one of them
\* has returned (the container lookup, the destination and the source
\* instances) is tagged with that build's own topology_ref and was not created
\* by the other.
C4_SnapshotsIsolated ==
    \A a, b \in Builds :
        OtherSnapshot(a, b) =>
            /\ \A v \in V : v.h[1] = b => ~Tagged(v, TagOf(builds[a]))
            /\ \A h \in Returned(builds[a]) :
                  /\ h[1] # b
                  /\ \A v \in V : v.h = h => Tagged(v, TagOf(builds[a]))

\* Both builds are in the middle of their logical connections, each holding
\* the instances its queries returned.
C4_Witness ==
    \E a, b \in Builds :
        /\ OtherSnapshot(a, b)
        /\ builds[a].pc = "logical_edge"
        /\ builds[b].pc = "logical_edge"

\* C5 (as claimed): when a stream manager id is malformed (no separator, or
\* no number after it), decoding its container fails and no vertex has been
\* created for that stmgrs entry: the database holds the vertices it held
\* before the entry was processed.
C5_NoVertexForMalformedBroker ==
    \A b \in Builds :
        (builds[b].pc = "failed" /\ builds[b].err \in StmgrParseErrors) =>
            LET id == builds[b].physical_plan.stmgrs[builds[b].i].id
            IN  /\ ~ContainerOfStmgr(id).ok
                /\ ~\E v \in V : /\ v.h[1] = b
                                 /\ v.label = "stream_manager"
                                 /\ v.id = id

\* C6: the end-to-end scenario.  One spout S1, one bolt B1 with the single
\* input (S1, default, shuffle); two instances of S1 and one of B1 under stream
\* manager "stmgr-1" in container 1.  A complete build on an empty database
\* leaves exactly 1 stream manager, 1 container, 2 spouts, 1 bolt, 4 is_within
\* edges and 2 logically_connected edges, one from each spout to the bolt,
\* each with stream_name default and grouping shuffle.
C6_EndToEnd ==
    \A b \in Builds :
        ScenarioBuilt(b) =>
            /\ Cardinality(WithLabel("stream_manager")) = 1
            /\ Cardinality(WithLabel("container")) = 1
            /\ Cardinality(WithLabel("spout")) = 2
            /\ Cardinality(WithLabel("bolt")) = 1
            /\ Cardinality(V) = 5
            /\ Cardinality(IsWithin) = 4
            /\ Cardinality(LogicallyConnected) = 2
            /\ Cardinality(E) = 6
            /\ \A v \in V : Tagged(v, TagOf(builds[b]))
            /\ \A v \in WithLabel("container") : v.id = 1
            /\ \A v \in V \ WithLabel("container") :
                  \E e \in IsWithin :
                      e.outV = v.h /\ VertexOf(V, e.inV).label = "container"
            /\ \A s \in WithLabel("spout") :
                  \E e \in LogicallyConnected :
                      /\ e.outV = s.h
                      /\ VertexOf(V, e.inV).label = "bolt"
                      /\ e.stream_name = "default"
                      /\ e.grouping = "shuffle"

C6_Witness == \E b \in Builds : ScenarioBuilt(b)

\* C7: a failing step (a parse, lookup or database failure) ends the call:
\* the error is the call's outcome, the database is as the failure found it,
\* the call issues nothing afterwards (no retry), and no step of any call
\* removes a vertex or an edge (no rollback).
C7_FailureEndsTheCall ==
    [][ /\ V \subseteq V'
        /\ E \subseteq E'
        /\ \A b \in Builds :
              /\ builds'[b].err # "" => builds'[b].pc = "failed"
              /\ (builds[b].err = "" /\ builds'[b].err # "") => (V' = V /\ E' = E)
              /\ builds[b].err # "" =>
                    /\ builds'[b] = builds[b]
                    /\ Contribution(b)' = Contribution(b) ]_vars

\* The partial snapshot: stream managers and containers, no instance.
C7_Witness ==
    \E b \in Builds :
        /\ builds[b].pc = "failed"
        /\ builds[b].err \in {"ParseError", "LookupError", "GraphStoreError"}
        /\ Labelled(TagOf(builds[b]), "stream_manager") # {}
        /\ Labelled(TagOf(builds[b]), "container") # {}
        /\ Labelled(TagOf(builds[b]), "spout") = {}
        /\ Labelled(TagOf(builds[b]), "bolt") = {}

\* C8: in _create_spouts and _create_bolts, when the snapshot holds no
\* container vertex with the instance's decoded container as id, the step
\* fails with a lookup error (unless the database itself fails) and adds no
\* edge; a call that ended in a lookup error has left its instance vertex
\* without an is_within edge.
C8_MissingContainerFails ==
    [][ \A b \in Builds :
           /\ (AtMissingContainer(builds[b]) /\ builds'[b] # builds[b]) =>
                 /\ builds'[b].pc = "failed"
                 /\ builds'[b].err \in {"LookupError", "GraphStoreError"}
                 /\ E' = E
           /\ builds'[b].err = "LookupError" =>
                 /\ builds'[b].vertex # None
                 /\ VertexOf(V', builds'[b].vertex).label \in {"spout", "bolt"}
                 /\ ~\E e \in E' : e.outV = builds'[b].vertex ]_vars

\* A bolt instance names a container that none of the stream managers gave.
C8_Witness ==
    \E b \in Builds :
        /\ builds[b].err = "LookupError"
        /\ VertexOf(V, builds[b].vertex).label = "bolt"
        /\ Labelled(TagOf(builds[b]), "container") # {}

\* C9: a call that failed fetching the logical or the physical plan ends with
\* that error and has issued no operation on the database: it has added no
\* vertex and no edge.
C9_FetchFailureTouchesNothing ==
    \A b \in Builds :
        builds[b].err = "PlanFetchError" =>
            /\ builds[b].pc = "failed"
            /\ builds[b].nv = 0
            /\ builds[b].ne = 0
            /\ Contribution(b) = << {}, {} >>

\* The logical plan arrived, the physical plan did not.
C9_Witness ==
    \E b \in Builds :
        /\ builds[b].err = "PlanFetchError"
        /\ builds[b].logical_plan # NoPlan
        /\ builds[b].physical_plan = NoPlan

\* C10: a second complete build of the same (topology_id, topology_ref) from
\* the same plans duplicates the snapshot: it then holds 2B stream_manager
\* vertices, 2B container vertices and two vertices for every instance name.
C10_RerunDuplicates ==
    \A tag \in Tags :
        TwoCompleteCalls(tag) =>
            \A b \in CallsOf(tag) :
                LET pp == builds[b].physical_plan
                    B  == Len(pp.stmgrs)
                IN  /\ Cardinality(Labelled(tag, "stream_manager")) = 2 * B
                    /\ Cardinality(Labelled(tag, "container")) = 2 * B
                    /\ \A comp \in DOMAIN pp.spouts : \A p \in 1..Len(pp.spouts[comp]) :
                          Cardinality(InstanceVertices(tag, "spout", comp,
                              ParseInstanceName(pp.spouts[comp][p]))) = 2
                    /\ \A comp \in DOMAIN pp.bolts : \A p \in 1..Len(pp.bolts[comp]) :
                          Cardinality(InstanceVertices(tag, "bolt", comp,
                              ParseInstanceName(pp.bolts[comp][p]))) = 2

\* Two stream managers, a spout and a bolt, built twice: 4 stream managers, 4
\* containers, 2 spouts, 2 bolts.
C10_Witness ==
    \E tag \in Tags :
        /\ TwoCompleteCalls(tag)
        /\ Cardinality(Labelled(tag, "stream_manager")) = 4
        /\ Cardinality(Labelled(tag, "container")) = 4
        /\ Cardinality(Labelled(tag, "spout")) = 2
        /\ Cardinality(Labelled(tag, "bolt")) = 2

\* C11: calls for the same (topology_id, topology_ref) are neither excluded
\* nor isolated from one another.  A step is one operation of one call and
\* leaves the other calls where they are; every lookup of a call (the
\* destination and source instances, the container of an instance) gives all
\* the matching vertices the snapshot holds at that moment, whichever call
\* created them; and an operation of one call removes nothing another call
\* has added.  (The interleaved state itself, with duplicated containers and
\* instances and a lookup of one call holding a vertex of the other, is
\* C11_Witness.)
C11_NotExcludedNorIsolated ==
    [][ \A a \in Builds :
           LET bd  == builds[a]
               nx  == builds'[a]
               tag == TagOf(bd)
           IN  /\ nx # bd => \A b \in Builds \ { a } : builds'[b] = builds[b]
               /\ \A b \in Builds \ { a } :
                     nx # bd => /\ Contribution(b)[1] \subseteq V'
                                /\ Contribution(b)[2] \subseteq E'
               /\ (bd.pc = "dest_query" /\ nx.pc = "source_query") =>
                     Range(nx.destination_instances) =
                        Handles({ v \in Snapshot(tag) :
                                    Has(v, "component",
                                        bd.logical_plan.bolts[bd.i].name) })
               /\ (bd.pc = "source_query" /\ nx.pc = "logical_edge") =>
                     Range(nx.source_instances) =
                        Handles({ v \in Snapshot(tag) :
                                    Has(v, "component",
                                        bd.logical_plan.bolts[bd.i].inputs[bd.j]
                                          .component_name) })
               /\ (bd.pc = "spout_edge" /\ nx # bd /\ nx.err = "") =>
                     nx.found = Handles(MatchingContainers(bd, SpoutName(bd)))
               /\ (bd.pc = "bolt_edge" /\ nx # bd /\ nx.err = "") =>
                     nx.found = Handles(MatchingContainers(bd, BoltName(bd)))
      ]_vars

\* Both calls are wiring the logical connections of the same snapshot and
\* either can be served next: the snapshot holds two containers with the same
\* id and two vertices for an instance, and the instances a query gave one
\* call include a vertex of the other.
C11_Witness ==
    \E a, b \in Builds :
        /\ Concurrent(a, b)
        /\ builds[a].pc = "logical_edge"
        /\ builds[b].pc = "logical_edge"
        /\ DuplicatedContainers(TagOf(builds[a])) # {}
        /\ DuplicatedInstances(TagOf(builds[a])) # {}
        /\ \E h \in Returned(builds[a]) : h[1] = b
        /\ ENABLED ConnectLogically(a)
        /\ ENABLED ConnectLogically(b)

\* C12 (as claimed): the operations of a call come in the order fetch both
\* plans, stream_manager and container vertices, spout vertices, bolt
\* vertices, is_within edges, logically_connected edges, each step after the
\* last operation of the one before: a call has no spout vertex before its
\* stream managers and containers are all there, no bolt vertex before all its
\* spout vertices, no is_within edge before all its bolt vertices, and no
\* logically_connected edge before all its is_within edges.
C12_StepsAsClaimed ==
    \A b \in Builds :
        /\ PlansFirst(b)
        /\ Added(b, "spout") # {} =>
              /\ Cardinality(Added(b, "stream_manager")) =
                    Len(builds[b].physical_plan.stmgrs)
              /\ Cardinality(Added(b, "container")) =
                    Len(builds[b].physical_plan.stmgrs)
        /\ Added(b, "bolt") # {} => SpoutVerticesMade(b)
        /\ Wired(b, "is_within") # {} => BoltVerticesMade(b)
        /\ Wired(b, "logically_connected") # {} =>
              /\ BrokersMade(b)
              /\ SpoutsMade(b)
              /\ BoltsMade(b)

\* C12 (amended): the operations of a call come one at a time in the order
\* fetch both plans; for each stmgrs entry its stream_manager vertex, its
\* container vertex and the is_within edge between them; for each spout
\* instance its vertex and then its is_within edge; for each bolt instance its
\* vertex and then its is_within edge; the lookups and logically_connected
\* edges.  The steps do not overlap: a call has no spout vertex before every
\* operation of the stream manager step is made, no bolt vertex before every
\* operation of the spout step, no logically_connected edge before every
\* operation of the bolt step.  The is_within edges are wired inside the
\* three vertex steps, each from the vertex the call has just added.
C12_StepsInOrder ==
    [][ /\ Cardinality(V') + Cardinality(E') <= Cardinality(V) + Cardinality(E) + 1
        /\ \A b \in Builds :
              /\ PlansFirst(b)'
              /\ Added(b, "spout")' # {} => BrokersMade(b)'
              /\ Added(b, "bolt")' # {} => BrokersMade(b)' /\ SpoutsMade(b)'
              /\ Wired(b, "logically_connected")' # {} =>
                    BrokersMade(b)' /\ SpoutsMade(b)' /\ BoltsMade(b)'
              /\ \A e \in Wired(b, "is_within")' \ Wired(b, "is_within") :
                    /\ e.outV = builds[b].vertex
                    /\ Wired(b, "logically_connected") = {} ]_vars

\* The call is about to add its first bolt: both stream managers and both
\* spouts are in their containers, and no bolt vertex exists yet.
C12_Witness ==
    \E b \in Builds :
        /\ builds[b].pc = "bolt_vertex"
        /\ Added(b, "bolt") = {}
        /\ Cardinality(Added(b, "stream_manager")) = 2
        /\ Cardinality(Added(b, "spout")) = 2
        /\ Cardinality(Wired(b, "is_within")) = 4

\* C13: the id of the container vertex made for a stmgrs entry depends on the
\* entry's id string alone: for an id that ends in a number after its first
\* "-" it is that number ("stmgr-3" gives 3), whatever the entry's place in
\* the plan and whatever comes before the "-"; so two stream managers whose
\* ids end in the same number are within containers with the same id.
C13_ContainerIdFromSuffix ==
    /\ \A pair \in StmgrContainerPairs :
          HasNumericSuffix(pair[1]) => pair[2] = NumericSuffix(pair[1])
    /\ \A p, q \in StmgrContainerPairs :
          ( /\ HasNumericSuffix(p[1])
            /\ HasNumericSuffix(q[1])
            /\ NumericSuffix(p[1]) = NumericSuffix(q[1]) ) => p[2] = q[2]

\* "t-1" and "stmgr-1" in one plan: each is within a container of its own,
\* and both containers have id 1.
C13_Witness ==
    /\ \E p, q \in StmgrContainerPairs :
          /\ p[1] # q[1]
          /\ p[2] = 1
          /\ q[2] = 1
    /\ Cardinality({ v \in WithLabel("container") : v.id = 1 }) = 2
    /\ Cardinality({ e \in IsWithin :
                       VertexOf(V, e.outV).label = "stream_manager" }) = 2

\* C14: when every call made so far has returned (calls for any snapshots,
\* one after the other or overlapping, the same snapshot built again
\* included), every container vertex has exactly one incoming is_within edge
\* from a stream_manager vertex, and every stream_manager vertex has exactly
\* one outgoing is_within edge, which goes to a container vertex with the
\* stream manager's own topology_id and topology_ref.
C14_OneStmgrPerContainer ==
    AllComplete =>
        /\ \A c \in WithLabel("container") : Cardinality(FromStmgrInto(c)) = 1
        /\ \A m \in WithLabel("stream_manager") :
              /\ Cardinality(WithinFrom(m)) = 1
              /\ \A e \in WithinFrom(m) :
                    LET to == VertexOf(V, e.inV)
                    IN  /\ to.label = "container"
                        /\ to.topology_id = m.topology_id
                        /\ to.topology_ref = m.topology_ref

\* A snapshot with two stream managers built twice: four containers, two with
\* each id, and four stream managers.
C14_Witness ==
    /\ AllComplete
    /\ \E tag \in Tags :
          /\ Cardinality(CallsOf(tag)) = 2
          /\ Cardinality(Labelled(tag, "container")) = 4
          /\ DuplicatedContainers(tag) = Labelled(tag, "container")
          /\ Cardinality(Labelled(tag, "stream_manager")) = 4

\* C15: no build creates a physically_connected edge.  In every reachable
\* state, after any calls of build_topology_graph, every edge of the database
\* is an is_within or a logically_connected edge; and
\* _create_physical_connections, whenever it runs, changes nothing in the
\* database.
C15_NoPhysicalEdge ==
    /\ \A e \in E : e.label # "physically_connected"
    /\ \A e \in E : e.label \in {"is_within", "logically_connected"}

\* Every call has returned and _create_physical_connections can run on a
\* snapshot with logically connected pairs to go through.
C15_Witness ==
    /\ AllComplete
    /\ \E tag \in Tags :
          /\ Cardinality(LogicalPairs(V, E, tag[1], tag[2])) >= 2
          /\ ENABLED CreatePhysicalConnections(tag)

\* C16: in every reachable state, whatever calls have run, one after the
\* other or interleaved, finished or not, the two end points of every edge
\* (is_within and logically_connected) exist and carry the same topology_id
\* and the same topology_ref.
C16_EdgesStayInOneSnapshot ==
    \A e \in E :
        /\ e.outV \in Handles(V)
        /\ e.inV \in Handles(V)
        /\ VertexOf(V, e.outV).topology_id = VertexOf(V, e.inV).topology_id
        /\ VertexOf(V, e.outV).topology_ref = VertexOf(V, e.inV).topology_ref

\* Two snapshots of one topology, both built to the end, each with its own
\* is_within and logically_connected edges.
C16_Witness ==
    \E a, b \in Builds :
        /\ OtherSnapshot(a, b)
        /\ builds[a].pc = "done"
        /\ builds[b].pc = "done"
        /\ Wired(a, "is_within") # {}
        /\ Wired(b, "is_within") # {}
        /\ Wired(a, "logically_connected") # {}
        /\ Wired(b, "logically_connected") # {}

\* C17: when a snapshot is built a second time from the same plans, after
\* the first build has returned, the queries of the second run find the
\* instances of both runs.  For every input of a bolt, with S instances of the
\* source and D of the bolt in the plan: the first run has added S * D
\* logically_connected edges, all between its own vertices; the second run
\* has added (2S) * (2D), one from every source instance of the snapshot to
\* every destination instance of the snapshot, whichever run created them;
\* the snapshot holds 5 * S * D edges for the input.
C17_SecondRunCrossProduct ==
    \A a, b \in Builds :
        SecondRun(a, b) =>
            LET tag == TagOf(builds[b])
                lp  == builds[b].logical_plan
                pp  == builds[b].physical_plan
            IN  \A i \in 1..Len(lp.bolts) : \A j \in 1..Len(lp.bolts[i].inputs) :
                    LET bolt   == lp.bolts[i].name
                        input  == lp.bolts[i].inputs[j]
                        S      == InstancesOf(pp, input.component_name)
                        D      == InstancesOf(pp, bolt)
                        srcs   == { v \in Snapshot(tag) :
                                      Has(v, "component", input.component_name) }
                        dsts   == { v \in Snapshot(tag) : Has(v, "component", bolt) }
                        edges  == InputEdges(tag, bolt, input)
                        first  == { e \in edges : e.id[1] = a }
                        second == { e \in edges : e.id[1] = b }
                    IN  /\ Cardinality(srcs) = 2 * S
                        /\ Cardinality(dsts) = 2 * D
                        /\ Cardinality(first) = S * D
                        /\ \A e \in first : e.outV[1] = a /\ e.inV[1] = a
                        /\ Cardinality(second) = (2 * S) * (2 * D)
                        /\ \A s \in srcs, d \in dsts :
                              Cardinality({ e \in second :
                                              e.outV = s.h /\ e.inV = d.h }) = 1
                        /\ Cardinality(edges) = 5 * S * D

\* The scenario built twice (S = 2, D = 1): 2 edges from the first run, 8
\* from the second, among them one from a spout of the first run to the bolt
\* of the second.
C17_Witness ==
    \E a, b \in Builds :
        /\ SecondRun(a, b)
        /\ builds[b].physical_plan = Scenario.physical
        /\ Cardinality(Wired(a, "logically_connected")) = 2
        /\ Cardinality(Wired(b, "logically_connected")) = 8
        /\ \E e \in Wired(b, "logically_connected") :
              e.outV[1] = a /\ e.inV[1] = b
====
